---------------------------- MODULE Spec2Model ----------------------------
(***************************************************************************)
(* Sailing efficiency monitor (src/sailing_efficiency.py, src/polars.py).  *)
(*                                                                         *)
(* The model covers the NMEA 2000 gateway encoder (PGN 127489 payload,     *)
(* fast-packet framing, CAN identifier, sequence counter), the polar       *)
(* performance model (angle normalisation, efficiency) and the monitor's   *)
(* sample buffer (ingest of Signal K deltas, windowed average, transmit    *)
(* tick).                                                                  *)
(*                                                                         *)
(* Python floats are modelled as exact rationals [n, d] (d > 0, lowest     *)
(* terms); the not-a-number float is the record with d = 0.  Python ints   *)
(* are integers and bytes objects are sequences over 0..255.               *)
(***************************************************************************)
EXTENDS Integers, Sequences, FiniteSets, TLC

VARIABLES
    sequence_counter,   \* NMEA2000Gateway.sequence_counter
    source_address,     \* NMEA2000Gateway.source_address
    serial,             \* NMEA2000Gateway.serial: "none", "open" or "closed"
    wire,               \* the lines serial.write has put on the transport, in order
    data_buffer,        \* SailingEfficiencyMonitor.data_buffer (deque)
    current_data,       \* SailingEfficiencyMonitor.current_data (SailingData)
    averaging_window,   \* SailingEfficiencyMonitor.averaging_window (seconds)
    update_interval,    \* SailingEfficiencyMonitor.update_interval (seconds)
    running,            \* SailingEfficiencyMonitor.running
    wake,               \* the time at which the transmitter's sleep ends
    tpc,                \* _n2k_transmitter: "idle", "sleeping" or "done"
    lpc,                \* _signalk_listener: "idle", "connecting", "subscribing",
                        \* "receiving", "delay" or "done"
    listener_wake,      \* the time at which the listener's receive wait or delay ends
    clock,              \* time.time(), in whole seconds
    interior,           \* value of the interpolant inside its hull, off the vertices
    query,              \* the point handed to the interpolator by the last call, or <<>>
    calls,              \* number of _build_fast_packet_frames calls so far (saturating)
    op,                 \* name of the operation the last step ran
    args,               \* its arguments
    ret                 \* its result: Ok(type, value) or Raise(exception)

vars == <<sequence_counter, source_address, serial, wire, data_buffer, current_data,
          averaging_window, update_interval, running, wake, tpc, lpc, listener_wake,
          clock, interior, query, calls, op, args, ret>>

gatewayVars == <<sequence_counter, source_address, serial, wire, calls>>
taskVars    == <<tpc, lpc, listener_wake>>
monitorVars == <<data_buffer, current_data, averaging_window, update_interval,
                 running, wake, taskVars, clock>>
polarVars   == <<interior, query>>

-----------------------------------------------------------------------------
(* Bounds of the model. *)

\* _build_fast_packet_frames calls counted exactly before `calls` saturates
MaxCalls == 10

\* capacity of data_buffer: deque(maxlen=1000) scaled down to a checkable size
MaxLen == 10

\* the clock runs from 0 to MaxTime seconds
MaxTime == 10

\* the clock of the running monitor (SpecTx) runs from 0 to TxMaxTime seconds
TxMaxTime == 3

\* the clock of the two coroutines (SpecFeed, SpecRun) runs from 0 to RunMaxTime
\* seconds
RunMaxTime == 6

\* the clock of the monitor fed with unusable values (SpecLoad) runs from 0 to
\* LoadMaxTime seconds
LoadMaxTime == 1

\* lines on the transport after which the gateway is not called any more (SpecGate)
MaxWire == 10

\* every payload length from 7 to MaxSplit bytes is split (SpecSplit)
MaxSplit == 30

-----------------------------------------------------------------------------
(* Results of Python calls. *)

\* a call that returns v of Python type t, and a call that raises exception e
Ok(t, v)   == [kind |-> "ok", type |-> t, val |-> v]
Raise(e)   == [kind |-> "raise", exc |-> e]
PyNone     == [none |-> TRUE]
None       == Ok("NoneType", PyNone)

-----------------------------------------------------------------------------
(* Python floats as exact rationals. *)

RECURSIVE Gcd(_, _)
Gcd(a, b) == IF b = 0 THEN a ELSE Gcd(b, a % b)

Abs(k) == IF k < 0 THEN -k ELSE k

\* the rational n/d in lowest terms with a positive denominator (d # 0)
Rat(n, d) ==
    LET g == Gcd(Abs(n), Abs(d))
        s == IF d < 0 THEN -1 ELSE 1
    IN  [n |-> (s * n) \div g, d |-> (s * d) \div g]

Int2F(k) == [n |-> k, d |-> 1]
NaN      == [n |-> 0, d |-> 0]
IsNaN(x) == x.d = 0

\* comparisons: every comparison with a NaN is false, as in IEEE 754
FLt(x, y) == ~IsNaN(x) /\ ~IsNaN(y) /\ x.n * y.d < y.n * x.d
FLe(x, y) == ~IsNaN(x) /\ ~IsNaN(y) /\ x.n * y.d <= y.n * x.d
FGt(x, y) == FLt(y, x)
FGe(x, y) == FLe(y, x)

FAdd(x, y) == IF IsNaN(x) \/ IsNaN(y) THEN NaN ELSE Rat(x.n * y.d + y.n * x.d, x.d * y.d)
FSub(x, y) == IF IsNaN(x) \/ IsNaN(y) THEN NaN ELSE Rat(x.n * y.d - y.n * x.d, x.d * y.d)
FMul(x, y) == IF IsNaN(x) \/ IsNaN(y) THEN NaN ELSE Rat(x.n * y.n, x.d * y.d)
\* x / y for y # 0 (Python raises ZeroDivisionError for y = 0)
FDiv(x, y) == IF IsNaN(x) \/ IsNaN(y) THEN NaN ELSE Rat(x.n * y.d, x.d * y.n)
FAbs(x)    == IF IsNaN(x) THEN NaN ELSE [n |-> Abs(x.n), d |-> x.d]

\* Python's max(a, b) and min(a, b): the first argument unless the second beats it
PyMax(a, b) == IF FGt(b, a) THEN b ELSE a
PyMin(a, b) == IF FLt(b, a) THEN b ELSE a

\* int(x) for a float x that is not NaN: truncation towards zero
PyInt(x) == IF x.n >= 0 THEN x.n \div x.d ELSE -((-x.n) \div x.d)

-----------------------------------------------------------------------------
(* Python's integer bit operators on non-negative ints. *)

RECURSIVE BitAnd(_, _)
BitAnd(a, b) ==
    IF a = 0 \/ b = 0 THEN 0
    ELSE (a % 2) * (b % 2) + 2 * BitAnd(a \div 2, b \div 2)

RECURSIVE BitOr(_, _)
BitOr(a, b) ==
    IF a = 0 THEN b
    ELSE IF b = 0 THEN a
    ELSE (IF a % 2 = 1 \/ b % 2 = 1 THEN 1 ELSE 0) + 2 * BitOr(a \div 2, b \div 2)

Shl(a, k) == a * 2^k
Shr(a, k) == a \div 2^k

-----------------------------------------------------------------------------
(* bytes and bytearray. *)

IsByte(b) == b \in 0..255

Min(a, b) == IF a < b THEN a ELSE b

\* bytearray(size): zero bytes
ByteArray(size) == [z \in 1..size |-> 0]

\* s[lo:hi] for 0 <= lo <= hi (Python clips the slice to the length of s)
Slice(s, lo, hi) == SubSeq(s, Min(lo, Len(s)) + 1, Min(hi, Len(s)))

\* s[lo:hi] = src on a bytearray: the slice is replaced, the length follows src
SliceAssign(s, lo, hi, src) ==
    SubSeq(s, 1, Min(lo, Len(s))) \o src \o SubSeq(s, Min(hi, Len(s)) + 1, Len(s))

\* s[index] = b on a bytearray (0-based index)
SetByte(s, index, b) == [s EXCEPT ![index + 1] = b]

\* for i in range(start, len(s)): s[i] = 0xFF
PadFF(s, start) == SubSeq(s, 1, start) \o [pad \in 1..(Len(s) - start) |-> 255]

\* struct.pack('<H', v) and struct.pack('<h', v) for 0 <= v < 2^15: little-endian bytes
\* (the 32-bit 0xFFFFFFFF is packed as its two 16-bit halves)
PackLE(v, size) == [p \in 1..size |-> (v \div 256^(p - 1)) % 256]

-----------------------------------------------------------------------------
(* NMEA2000Gateway: payload of PGN 127489 and fast-packet framing. *)

PGN_ENGINE_DYNAMIC == 127489

\* mutant of _build_pgn_127489: the load byte is written in half percents
M_build_pgn_127489_HalfPercent(engine_load_percent, engine_instance) ==
    LET clamped == PyMin(PyMax(engine_load_percent, Int2F(0)), Int2F(125))
    IN  IF IsNaN(clamped) THEN Raise("ValueError")
        ELSE IF ~IsByte(engine_instance) THEN Raise("ValueError")
        ELSE Ok("bytes", [z \in 1..26 |->
                 CASE z = 1  -> engine_instance
                   [] z = 11 -> 127
                   [] z = 24 -> 0
                   [] z = 25 -> 2 * PyInt(clamped)
                   [] z = 26 -> 127
                   [] OTHER  -> 255])

\* mutant of LoadValue: clamped to the field's full range 0..250
M_LoadValue_Clamp250(engine_load_percent) ==
    LET clamped == PyMin(PyMax(engine_load_percent, Int2F(0)), Int2F(250))
    IN  IF IsNaN(clamped) THEN Raise("ValueError") ELSE Ok("int", PyInt(clamped))

\* load_value = int(min(max(engine_load_percent, 0), 125)); int(nan) raises ValueError
LoadValue(engine_load_percent) ==
    LET clamped == PyMin(PyMax(engine_load_percent, Int2F(0)), Int2F(125))
    IN  IF IsNaN(clamped) THEN Raise("ValueError") ELSE Ok("int", PyInt(clamped))

_build_pgn_127489(engine_load_percent, engine_instance) ==
    LET load_value == LoadValue(engine_load_percent)
        d0  == ByteArray(26)
        d1  == SetByte(d0, 0, engine_instance)
        d2  == SliceAssign(d1, 1, 3, PackLE(65535, 2))
        d3  == SliceAssign(d2, 3, 5, PackLE(65535, 2))
        d4  == SliceAssign(d3, 5, 7, PackLE(65535, 2))
        d5  == SliceAssign(d4, 7, 9, PackLE(65535, 2))
        d6  == SliceAssign(d5, 9, 11, PackLE(32767, 2))
        d7  == SliceAssign(d6, 11, 15, PackLE(65535, 2) \o PackLE(65535, 2))
        d8  == SliceAssign(d7, 15, 17, PackLE(65535, 2))
        d9  == SliceAssign(d8, 17, 19, PackLE(65535, 2))
        d10 == SliceAssign(d9, 19, 23, <<255, 255, 255, 255>>)
        d11 == SetByte(d10, 23, 0)
        d12 == SetByte(d11, 24, load_value.val)
        d13 == SetByte(d12, 25, 127)
    IN  IF load_value.kind = "raise" THEN load_value
        ELSE IF ~IsByte(engine_instance) THEN Raise("ValueError")
        ELSE Ok("bytes", d13)

\* mutant of CanId: the PDU-specific byte is always the broadcast address
M_CanId_AlwaysBroadcast(pgn, priority) ==
    LET pf == BitAnd(Shr(pgn, 8), 255)
        dp == BitAnd(Shr(pgn, 16), 1)
    IN  BitOr(BitOr(BitOr(BitOr(Shl(BitAnd(priority, 7), 26), Shl(dp, 24)),
                          Shl(pf, 16)), Shl(255, 8)), source_address)

\* mutant of CanId: the PDU2 test is off by one (pf > 240)
M_CanId_Pdu2OffByOne(pgn, priority) ==
    LET pf == BitAnd(Shr(pgn, 8), 255)
        ps == IF pf > 240 THEN BitAnd(pgn, 255) ELSE 255
        dp == BitAnd(Shr(pgn, 16), 1)
    IN  BitOr(BitOr(BitOr(BitOr(Shl(BitAnd(priority, 7), 26), Shl(dp, 24)),
                          Shl(pf, 16)), Shl(ps, 8)), source_address)

\* can_id = ((priority & 0x07) << 26) | (dp << 24) | (pf << 16) | (ps << 8) | source_address
CanId(pgn, priority) ==
    LET pf == BitAnd(Shr(pgn, 8), 255)
        ps == IF pf >= 240 THEN BitAnd(pgn, 255) ELSE 255
        dp == BitAnd(Shr(pgn, 16), 1)
    IN  BitOr(BitOr(BitOr(BitOr(Shl(BitAnd(priority, 7), 26), Shl(dp, 24)),
                          Shl(pf, 16)), Shl(ps, 8)), source_address)

\* mutant of NextSequenceCounter: a 4-bit mask
M_NextSequenceCounter_WideMask == BitAnd(sequence_counter + 1, 15)

\* self.sequence_counter = (self.sequence_counter + 1) & 0x07
NextSequenceCounter == BitAnd(sequence_counter + 1, 7)

\* frame0: [seq << 5 | 0] [total_bytes] [data 0..5]
Frame0(seq, data) ==
    LET f0 == ByteArray(8)
        f1 == SetByte(f0, 0, BitOr(Shl(seq, 5), 0))
        f2 == SetByte(f1, 1, Len(data))
    IN  SliceAssign(f2, 2, 8, Slice(data, 0, 6))

\* mutant of FrameN: the chunk starts one byte late
M_FrameN_LateChunk(seq, frame_num, data, offset) ==
    LET f0    == ByteArray(8)
        f1    == SetByte(f0, 0, BitOr(Shl(seq, 5), frame_num))
        chunk == Slice(data, offset + 1, offset + 8)
        f2    == SliceAssign(f1, 1, 1 + Len(chunk), chunk)
    IN  PadFF(f2, 1 + Len(chunk))

\* one later frame: [seq << 5 | frame_num] [up to 7 data bytes] [0xFF padding]
FrameN(seq, frame_num, data, offset) ==
    LET f0    == ByteArray(8)
        f1    == SetByte(f0, 0, BitOr(Shl(seq, 5), frame_num))
        chunk == Slice(data, offset, offset + 7)
        f2    == SliceAssign(f1, 1, 1 + Len(chunk), chunk)
    IN  PadFF(f2, 1 + Len(chunk))

\* mutant of RestFrames: frame_num advances by two
RECURSIVE M_RestFrames_SkipsIndex(_, _, _, _, _)
M_RestFrames_SkipsIndex(can_id, seq, data, offset, frame_num) ==
    IF offset < Len(data)
    THEN <<<<can_id, FrameN(seq, frame_num, data, offset)>>>>
         \o M_RestFrames_SkipsIndex(can_id, seq, data, offset + 7, frame_num + 2)
    ELSE <<>>

\* the while loop: offset = 6, 13, ... while offset < total_bytes
RECURSIVE RestFrames(_, _, _, _, _)
RestFrames(can_id, seq, data, offset, frame_num) ==
    IF offset < Len(data)
    THEN <<<<can_id, FrameN(seq, frame_num, data, offset)>>>>
         \o RestFrames(can_id, seq, data, offset + 7, frame_num + 1)
    ELSE <<>>

\* the value returned; the counter is advanced by the calling action
_build_fast_packet_frames(pgn, data, priority) ==
    LET can_id == CanId(pgn, priority)
        seq    == sequence_counter
    IN  IF Len(data) > 255 THEN Raise("ValueError")
        ELSE Ok("list", <<<<can_id, Frame0(seq, data)>>>> \o RestFrames(can_id, seq, data, 6, 1))

Call_build_fast_packet_frames(pgn, data, priority) ==
    /\ op' = "_build_fast_packet_frames"
    /\ args' = <<pgn, data, priority>>
    /\ ret' = _build_fast_packet_frames(pgn, data, priority)
    /\ sequence_counter' = NextSequenceCounter
    /\ calls' = IF calls < MaxCalls THEN calls + 1 ELSE calls
    /\ UNCHANGED <<source_address, serial, wire, monitorVars, polarVars>>

Call_build_pgn_127489 ==
    /\ op = "init"
    /\ op' = "_build_pgn_127489"
    /\ ret' = _build_pgn_127489(args[1], args[2])
    /\ UNCHANGED <<args, gatewayVars, monitorVars, polarVars>>

\* what connect() can meet: serial.Serial(...) raises, the handshake write raises,
\* the read of the response raises, or nothing raises
ConnectOutcomes == {"open fails", "write fails", "read fails", "connected"}

\* b'YDNU MODE RAW\r\n'
Handshake == [command |-> "YDNU MODE RAW"]

\* self.serial after connect(): assigned as soon as serial.Serial(...) returns
SerialAfterConnect(outcome) == IF outcome = "open fails" THEN serial ELSE "open"

\* the transport after connect(): the handshake, if its write did not raise
WireAfterConnect(outcome) ==
    IF outcome \in {"read fails", "connected"} THEN wire \o <<Handshake>> ELSE wire

\* f'{b:02X}' for a byte b
HexDigits ==
    <<"0", "1", "2", "3", "4", "5", "6", "7", "8", "9", "A", "B", "C", "D", "E", "F">>

Hex02X(b) == <<HexDigits[(b \div 16) + 1], HexDigits[(b % 16) + 1]>>

\* raw_msg: "timestamp,priority,pgn,src,dst,len,hex_data\r\n", field by field
RawMsg(timestamp, frame) ==
    [timestamp |-> timestamp,
     priority  |-> BitAnd(Shr(frame[1], 26), 7),
     pgn       |-> PGN_ENGINE_DYNAMIC,
     src       |-> source_address,
     dst       |-> 255,
     len       |-> Len(frame[2]),
     hex_data  |-> [h \in 1..Len(frame[2]) |-> Hex02X(frame[2][h])]]

\* the lines of the first `accepted` frames
RawLines(timestamp, frames, accepted) ==
    [f \in 1..Min(accepted, Len(frames)) |-> RawMsg(timestamp, frames[f])]

\* mutant of send_engine_load: the frames are built before the transport is tested
M_send_engine_load_BuildsFirst(efficiency_percent, engine_instance, accepted) ==
    LET payload   == _build_pgn_127489(efficiency_percent, engine_instance)
        frames    == _build_fast_packet_frames(PGN_ENGINE_DYNAMIC, payload.val, 6)
        timestamp == (clock * 1000) % 86400000
    IN  IF payload.kind = "raise"
        THEN [ret |-> Ok("bool", FALSE), lines |-> <<>>, built |-> FALSE]
        ELSE IF serial # "open"
        THEN [ret |-> Ok("bool", FALSE), lines |-> <<>>, built |-> TRUE]
        ELSE [ret   |-> Ok("bool", accepted >= Len(frames.val)),
              lines |-> RawLines(timestamp, frames.val, accepted),
              built |-> TRUE]

\* send_engine_load: the value returned, the lines written and whether the frames
\* were built (and so the sequence counter advanced); serial.write raises on the
\* frame after the first `accepted` ones, if there is one
send_engine_load(efficiency_percent, engine_instance, accepted) ==
    LET payload   == _build_pgn_127489(efficiency_percent, engine_instance)
        frames    == _build_fast_packet_frames(PGN_ENGINE_DYNAMIC, payload.val, 6)
        timestamp == (clock * 1000) % 86400000
    IN  IF serial # "open"
        THEN [ret |-> Ok("bool", FALSE), lines |-> <<>>, built |-> FALSE]
        ELSE IF payload.kind = "raise"
        THEN [ret |-> Ok("bool", FALSE), lines |-> <<>>, built |-> FALSE]
        ELSE [ret   |-> Ok("bool", accepted >= Len(frames.val)),
              lines |-> RawLines(timestamp, frames.val, accepted),
              built |-> TRUE]

-----------------------------------------------------------------------------
(* BoatPerformance: the polar table, the interpolator and the efficiency. *)

\* tws_cols and the fixed-angle rows of raw_data, speeds in hundredths of a knot
tws_cols == <<4, 6, 8, 10, 12, 14, 16, 20, 24>>

FixedAngles == {52, 60, 75, 90, 110, 120, 135, 150}

raw_data(angle) ==
    CASE angle = 52  -> <<395, 521, 602, 644, 664, 673, 677, 677, 671>>
      [] angle = 60  -> <<415, 544, 623, 662, 682, 692, 696, 699, 697>>
      [] angle = 75  -> <<430, 560, 637, 676, 699, 714, 723, 733, 738>>
      [] angle = 90  -> <<420, 551, 633, 680, 704, 724, 740, 764, 776>>
      [] angle = 110 -> <<413, 556, 653, 701, 732, 756, 771, 796, 811>>
      [] angle = 120 -> <<400, 543, 644, 697, 731, 762, 790, 827, 855>>
      [] angle = 135 -> <<352, 490, 600, 671, 712, 745, 777, 843, 918>>
      [] angle = 150 -> <<294, 415, 521, 610, 670, 706, 734, 790, 852>>

\* mutant of gybe_angle: the gybe angle of the 4-knot column lies on the 150 row
M_gybe_angle_OnFixedRow == <<1500, 1442, 1480, 1493, 1531, 1590, 1630, 1762, 1759>>

\* the dynamic rows: angles in tenths of a degree, VMG in hundredths of a knot
beat_angle == <<421, 421, 404, 398, 396, 392, 391, 397, 411>>
beat_vmg   == <<259, 348, 410, 446, 464, 472, 475, 471, 458>>
run_vmg    == <<254, 360, 451, 528, 583, 625, 659, 714, 763>>
gybe_angle == <<1442, 1442, 1480, 1493, 1531, 1590, 1630, 1762, 1759>>

IsInt(x) == x.d = 1

IsTwsCol(tws) == IsInt(tws) /\ \E c \in 1..Len(tws_cols) : tws_cols[c] = tws.n

\* mutant of ColOf: the speeds are taken from the column after
M_ColOf_NextColumn(tws) == ((CHOOSE c \in 1..Len(tws_cols) : tws_cols[c] = tws.n) % Len(tws_cols)) + 1

ColOf(tws) == CHOOSE c \in 1..Len(tws_cols) : tws_cols[c] = tws.n

\* The LinearNDInterpolator built by _build_model, queried at one point (not NaN).
\* Outside the convex hull of the points, the rectangle [4, 24] x [0, 180], it
\* returns fill_value = 0.  On the hull edge twa = 0 every vertex is 0, so it
\* returns 0.  At a fixed-angle vertex it returns the table speed.  Everywhere
\* else the value depends on the triangulation scipy chooses and is `interior`.
interpolator(tws, twa) ==
    IF FLt(tws, Int2F(4)) \/ FGt(tws, Int2F(24)) \/ FLt(twa, Int2F(0)) \/ FGt(twa, Int2F(180))
    THEN Int2F(0)
    ELSE IF twa = Int2F(0) THEN Int2F(0)
    ELSE IF IsTwsCol(tws) /\ IsInt(twa) /\ twa.n \in FixedAngles
    THEN Rat(raw_data(twa.n)[ColOf(tws)], 100)
    ELSE interior

\* mutant of NormalizeAngle: the sign is kept, only angles above 180 are folded
M_NormalizeAngle_KeepsSign(twa) ==
    IF FGt(twa, Int2F(180)) THEN FSub(Int2F(360), twa) ELSE twa

\* mutant of NormalizeAngle: the fold of angles above 180 is missing
M_NormalizeAngle_NoFold(twa) == FAbs(twa)

\* twa = abs(twa); if twa > 180: twa = 360 - twa
NormalizeAngle(twa) ==
    LET a == FAbs(twa)
    IN  IF FGt(a, Int2F(180)) THEN FSub(Int2F(360), a) ELSE a

\* the point get_target_speed hands to the interpolator; <<>> when it returns early
QueryOf(tws, twa) ==
    IF IsNaN(tws) \/ IsNaN(twa) THEN <<>> ELSE <<tws, NormalizeAngle(twa)>>

\* the value returned: None for a NaN input, else float(res)
get_target_speed(tws, twa) ==
    IF IsNaN(tws) \/ IsNaN(twa) THEN PyNone
    ELSE interpolator(tws, NormalizeAngle(twa))

\* None <= 0.5 raises TypeError; a target <= 0.5 returns the bare float 0.0;
\* otherwise the pair (min(max(efficiency, 0.0), 125.0), target)
calculate_efficiency(tws, twa, stw) ==
    LET target == get_target_speed(tws, twa)
    IN  IF target = PyNone THEN Raise("TypeError")
        ELSE IF FLe(target, Rat(1, 2)) THEN Ok("float", Int2F(0))
        ELSE LET efficiency == FMul(FDiv(stw, target), Int2F(100))
             IN  Ok("tuple", <<PyMin(PyMax(efficiency, Int2F(0)), Int2F(125)), target>>)

\* for angle in [52, 60, 75, 90, 110, 120, 135, 150]
FixedAngleRows == <<52, 60, 75, 90, 110, 120, 135, 150>>

\* a value of the table, and a value converted from a VMG: vmg / cos(radians(of))
\* or vmg / abs(cos(radians(of))), times a factor; math.cos is not evaluated
TableSpeed(hundredths) == [kind |-> "speed", val |-> Rat(hundredths, 100)]

ConvertedSpeed(vmg, of, absolute, factor) ==
    [kind |-> "vmg", vmg |-> Rat(vmg, 100), of |-> Rat(of, 10), absolute |-> absolute,
     factor |-> factor]

PolarPoint(tws, twa, value) == [tws |-> Int2F(tws), twa |-> twa, value |-> value]

\* the points and values one pass of the loop appends, in the order of the appends
ColumnPoints(c) ==
    <<PolarPoint(tws_cols[c], Rat(beat_angle[c], 10),
                 ConvertedSpeed(beat_vmg[c], beat_angle[c], FALSE, Int2F(1))),
      PolarPoint(tws_cols[c], Int2F(0), TableSpeed(0))>>
    \o [r \in 1..Len(FixedAngleRows) |->
          PolarPoint(tws_cols[c], Int2F(FixedAngleRows[r]),
                     TableSpeed(raw_data(FixedAngleRows[r])[c]))]
    \o <<PolarPoint(tws_cols[c], Rat(gybe_angle[c], 10),
                    ConvertedSpeed(run_vmg[c], gybe_angle[c], TRUE, Int2F(1))),
         PolarPoint(tws_cols[c], Int2F(180),
                    ConvertedSpeed(run_vmg[c], gybe_angle[c], TRUE, Rat(95, 100)))>>

\* for i, tws in enumerate(tws_cols): ... ; the lists handed to the interpolator
RECURSIVE PointsFrom(_)
PointsFrom(c) == IF c > Len(tws_cols) THEN <<>> ELSE ColumnPoints(c) \o PointsFrom(c + 1)

_build_model == PointsFrom(1)

Call_build_model ==
    /\ op = "init"
    /\ op' = "_build_model"
    /\ ret' = Ok("points", _build_model)
    /\ UNCHANGED <<args, query, interior, gatewayVars, monitorVars>>

Call_get_target_speed ==
    /\ op = "init"
    /\ op' = "get_target_speed"
    /\ query' = QueryOf(args[1], args[2])
    /\ ret' = LET res == get_target_speed(args[1], args[2])
              IN  IF res = PyNone THEN None ELSE Ok("float", res)
    /\ UNCHANGED <<args, interior, gatewayVars, monitorVars>>

Call_calculate_efficiency ==
    /\ op = "init"
    /\ op' = "calculate_efficiency"
    /\ query' = QueryOf(args[1], args[2])
    /\ ret' = calculate_efficiency(args[1], args[2], args[3])
    /\ UNCHANGED <<args, interior, gatewayVars, monitorVars>>

-----------------------------------------------------------------------------
(* SailingEfficiencyMonitor: Signal K deltas, the sample buffer, the average. *)

\* A Signal K delta is a dict: Delta(updates) has the key 'updates', a sequence of
\* updates, each the sequence of its 'values' (empty when the key is missing);
\* NoUpdates is a dict without the key.  A value is a dict with 'path' and 'value'.
Delta(updates)     == [updates |-> updates]
NoUpdates          == [context |-> "vessels.self"]
PathValue(path, v) == [path |-> path, value |-> v]

\* ms * 1.94384, and 0.0 for None
_ms_to_knots(ms) == IF ms = PyNone THEN Int2F(0) ELSE FMul(ms, Rat(194384, 100000))

\* radians * (180 / math.pi), and 0.0 for None; an angle is carried as the rational
\* multiple of pi it is, so that the conversion is exact
_rad_to_deg(radians) == IF radians = PyNone THEN Int2F(0) ELSE FMul(radians, Int2F(180))

\* the if/elif chain on one value's path
ApplyValue(cd, value) ==
    IF value.path = "navigation.speedThroughWater"
    THEN [cd EXCEPT !.stw = _ms_to_knots(value.value)]
    ELSE IF value.path = "environment.wind.angleTrueWater"
    THEN [cd EXCEPT !.twa = _rad_to_deg(value.value)]
    ELSE IF value.path = "environment.wind.speedTrue"
    THEN [cd EXCEPT !.tws = _ms_to_knots(value.value)]
    ELSE cd

\* for value in update.get('values', [])
RECURSIVE ApplyValues(_, _, _)
ApplyValues(cd, values, v) ==
    IF v > Len(values) THEN cd
    ELSE ApplyValues(ApplyValue(cd, values[v]), values, v + 1)

\* for update in data['updates']
RECURSIVE ApplyUpdates(_, _, _)
ApplyUpdates(cd, updates, u) ==
    IF u > Len(updates) THEN cd
    ELSE ApplyUpdates(ApplyValues(cd, updates[u], 1), updates, u + 1)

\* mutant of DequeAppend: the deque holds the monitor's one current_data object,
\* so every stored entry shows the appended values
M_DequeAppend_SharedObject(buf, sample) ==
    [z \in 1..Min(Len(buf) + 1, MaxLen) |-> sample]

\* mutant of DequeAppend: a full buffer drops the newest stored sample
M_DequeAppend_DropNewest(buf, sample) ==
    IF Len(buf) >= MaxLen THEN SubSeq(buf, 1, Len(buf) - 1) \o <<sample>>
    ELSE buf \o <<sample>>

\* deque.append on a deque with maxlen: a full deque drops its oldest item
DequeAppend(buf, sample) ==
    IF Len(buf) >= MaxLen THEN Tail(buf) \o <<sample>> ELSE buf \o <<sample>>

\* current_data after the loops and the timestamp assignment
UpdatedData(data) ==
    [ApplyUpdates(current_data, data.updates, 1) EXCEPT !.timestamp = clock]

\* the dataclass SailingData
SailingData(stw, twa, tws, timestamp) ==
    [stw |-> stw, twa |-> twa, tws |-> tws, timestamp |-> timestamp]

\* mutant of SampleOf: the stored copy keeps the timestamp of the delta before
M_SampleOf_StaleTimestamp(cd) == SailingData(cd.stw, cd.twa, cd.tws, current_data.timestamp)

\* SailingData(stw=..., twa=..., tws=..., timestamp=...): the copy that is stored
SampleOf(cd) == SailingData(cd.stw, cd.twa, cd.tws, cd.timestamp)

\* what _process_signalk_update does to the monitor
ProcessUpdate(data) ==
    IF "updates" \notin DOMAIN data
    THEN UNCHANGED <<current_data, data_buffer>>
    ELSE /\ current_data' = UpdatedData(data)
         /\ data_buffer' = DequeAppend(data_buffer, SampleOf(UpdatedData(data)))

Call_process_signalk_update(data) ==
    /\ op' = "_process_signalk_update"
    /\ args' = <<data>>
    /\ ret' = None
    /\ ProcessUpdate(data)
    /\ UNCHANGED <<averaging_window, update_interval, running, wake, taskVars, clock,
                   gatewayVars, polarVars>>

\* mutant of Recent: the cutoff itself is excluded
M_Recent_Strict(buf, now, window) ==
    SelectSeq(buf, LAMBDA d : FGt(Int2F(d.timestamp), FSub(Int2F(now), window)))

\* recent = [d for d in self.data_buffer if d.timestamp >= cutoff]
Recent(buf, now, window) ==
    SelectSeq(buf, LAMBDA d : FGe(Int2F(d.timestamp), FSub(Int2F(now), window)))

\* sum(d.<field> for d in recent)
RECURSIVE SumOf(_, _, _)
SumOf(recent, field, r) ==
    IF r > Len(recent) THEN Int2F(0)
    ELSE FAdd(recent[r][field], SumOf(recent, field, r + 1))

Mean(recent, field) == FDiv(SumOf(recent, field, 1), Int2F(Len(recent)))

\* the point calculate_efficiency queries for the averaged sample, if any
AveragedQuery ==
    LET recent == Recent(data_buffer, clock, averaging_window)
    IN  IF recent = <<>> THEN <<>>
        ELSE QueryOf(Mean(recent, "tws"), Mean(recent, "twa"))

\* (efficiency, target, avg_stw, avg_twa, avg_tws); the tuple unpacking of a bare
\* float and a raised exception both end in the except branch
_calculate_averaged_efficiency ==
    LET recent  == Recent(data_buffer, clock, averaging_window)
        avg_stw == Mean(recent, "stw")
        avg_twa == Mean(recent, "twa")
        avg_tws == Mean(recent, "tws")
        res     == calculate_efficiency(avg_tws, avg_twa, avg_stw)
    IN  IF recent = <<>>
        THEN Ok("tuple", <<Int2F(0), Int2F(0), Int2F(0), Int2F(0), Int2F(0)>>)
        ELSE IF res.kind = "ok" /\ res.type = "tuple"
        THEN Ok("tuple", <<res.val[1], res.val[2], avg_stw, avg_twa, avg_tws>>)
        ELSE Ok("tuple", <<Int2F(0), Int2F(0), avg_stw, avg_twa, avg_tws>>)

Call_calculate_averaged_efficiency ==
    /\ op' = "_calculate_averaged_efficiency"
    /\ args' = <<>>
    /\ ret' = _calculate_averaged_efficiency
    /\ query' = AveragedQuery
    /\ UNCHANGED <<interior, monitorVars, gatewayVars>>

\* the environment: time.time() advances by one second, up to limit
ClockTick(limit) ==
    /\ clock < limit
    /\ clock' = clock + 1
    /\ op' = "time passes"
    /\ args' = <<>>
    /\ ret' = None
    /\ UNCHANGED <<data_buffer, current_data, averaging_window, update_interval,
                   running, wake, taskVars, gatewayVars, polarVars>>

\* run() up to asyncio.gather: connect(), self.running = True, and the two
\* coroutines started: the listener runs up to its connect, the transmitter's first
\* iteration is due at once
run_connect(outcome) ==
    /\ ~running
    /\ op = "init"
    /\ op' = "run"
    /\ args' = <<outcome>>
    /\ ret' = Ok("bool", outcome = "connected")
    /\ serial' = SerialAfterConnect(outcome)
    /\ wire' = WireAfterConnect(outcome)
    /\ running' = TRUE
    /\ tpc' = "sleeping"
    /\ lpc' = "connecting"
    /\ UNCHANGED <<sequence_counter, source_address, calls, data_buffer, current_data,
                   averaging_window, update_interval, wake, listener_wake, clock,
                   polarVars>>

\* the transmitter's sleep is over: its loop can go on
TickDue == tpc = "sleeping" /\ FGe(Int2F(clock), wake)

\* mutant of AfterTick: a send that failed ends the transmitter
M_AfterTick_FailureEnds(sent) == IF sent THEN "sleeping" ELSE "done"

\* the transmitter after an iteration: send_engine_load's result is not looked at
\* and an exception is caught, so await asyncio.sleep(self.update_interval) follows
AfterTick(sent) == "sleeping"

\* one iteration of _n2k_transmitter's loop, up to its sleep: the snapshot, then
\* send_engine_load(efficiency) whatever the snapshot is
TransmitTick(accepted) ==
    LET snapshot == _calculate_averaged_efficiency
        sent     == send_engine_load(snapshot.val[1], 0, accepted)
    IN  /\ running
        /\ tpc = "sleeping"
        /\ FGe(Int2F(clock), wake)
        /\ op' = "_n2k_transmitter"
        /\ args' = <<accepted>>
        /\ ret' = Ok("tick", [snapshot |-> snapshot.val, sent |-> sent.ret.val])
        /\ query' = AveragedQuery
        /\ wire' = wire \o sent.lines
        /\ sequence_counter' = IF sent.built THEN NextSequenceCounter ELSE sequence_counter
        /\ calls' = IF sent.built /\ calls < MaxCalls THEN calls + 1 ELSE calls
        /\ wake' = FAdd(Int2F(clock), update_interval)
        /\ tpc' = AfterTick(sent.ret.val)
        /\ UNCHANGED <<source_address, serial, data_buffer, current_data,
                       averaging_window, update_interval, running, lpc, listener_wake,
                       clock, interior>>

\* the transmitter wakes and finds self.running false: its loop ends
TransmitterExit ==
    /\ tpc = "sleeping"
    /\ ~running
    /\ FGe(Int2F(clock), wake)
    /\ tpc' = "done"
    /\ op' = "_n2k_transmitter ends"
    /\ args' = <<>>
    /\ ret' = None
    /\ UNCHANGED <<lpc, listener_wake, data_buffer, current_data, averaging_window,
                   update_interval, running, wake, clock, gatewayVars, polarVars>>

\* await asyncio.sleep(5), the reconnect delay, and timeout=5.0 of the receive wait
RECONNECT_DELAY == 5
RECV_TIMEOUT == 5

\* how the await of websockets.connect can end, and the await of websocket.send
ListenerConnectOutcomes == {"connected", "refused"}
SubscribeOutcomes == {"sent", "send fails"}

\* the outer except branch: the delay if self.running, and the loop's test if not
AfterException == IF running THEN "delay" ELSE "done"

\* mutant of AfterMessage: the inner loop does not look at self.running
M_AfterMessage_IgnoresFlag == "receiving"

\* the test of the inner loop; leaving it closes the connection and the outer
\* loop's test follows at once
AfterMessage == IF running THEN "receiving" ELSE "done"

\* break: the connection is closed and the outer loop's test decides
AfterBreak == IF running THEN "connecting" ELSE "done"

\* the deadline that goes with the listener's next position
DeadlineFor(pc) ==
    IF pc = "delay" THEN clock + RECONNECT_DELAY
    ELSE IF pc = "receiving" THEN clock + RECV_TIMEOUT
    ELSE listener_wake

\* async with websockets.connect(...) resolves
ListenerConnect(outcome) ==
    /\ lpc = "connecting"
    /\ lpc' = IF outcome = "connected" THEN "subscribing" ELSE AfterException
    /\ listener_wake' = DeadlineFor(lpc')
    /\ op' = "websockets.connect"
    /\ args' = <<outcome>>
    /\ ret' = None
    /\ UNCHANGED <<tpc, data_buffer, current_data, averaging_window, update_interval,
                   running, wake, clock, gatewayVars, polarVars>>

\* await self._subscribe_signalk(websocket) resolves
ListenerSubscribe(outcome) ==
    /\ lpc = "subscribing"
    /\ lpc' = IF outcome = "sent" THEN AfterMessage ELSE AfterException
    /\ listener_wake' = DeadlineFor(lpc')
    /\ op' = "_subscribe_signalk"
    /\ args' = <<outcome>>
    /\ ret' = None
    /\ UNCHANGED <<tpc, data_buffer, current_data, averaging_window, update_interval,
                   running, wake, clock, gatewayVars, polarVars>>

\* await asyncio.wait_for(websocket.recv(), timeout=5.0) gives a message, which
\* json.loads turns into data and _process_signalk_update handles
ListenerMessage(data) ==
    /\ lpc = "receiving"
    /\ ProcessUpdate(data)
    /\ lpc' = AfterMessage
    /\ listener_wake' = DeadlineFor(lpc')
    /\ op' = "_process_signalk_update"
    /\ args' = <<data>>
    /\ ret' = None
    /\ UNCHANGED <<tpc, averaging_window, update_interval, running, wake, clock,
                   gatewayVars, polarVars>>

\* the wait ends in asyncio.TimeoutError: continue
ListenerTimeout ==
    /\ lpc = "receiving"
    /\ clock >= listener_wake
    /\ lpc' = AfterMessage
    /\ listener_wake' = DeadlineFor(lpc')
    /\ op' = "asyncio.TimeoutError"
    /\ args' = <<>>
    /\ ret' = None
    /\ UNCHANGED <<tpc, data_buffer, current_data, averaging_window, update_interval,
                   running, wake, clock, gatewayVars, polarVars>>

\* the wait, json.loads or the handler raises another exception: break
ListenerError ==
    /\ lpc = "receiving"
    /\ lpc' = AfterBreak
    /\ op' = "Signal K receive error"
    /\ args' = <<>>
    /\ ret' = None
    /\ UNCHANGED <<tpc, listener_wake, data_buffer, current_data, averaging_window,
                   update_interval, running, wake, clock, gatewayVars, polarVars>>

\* the reconnect delay is over: the outer loop's test
ListenerDelayOver ==
    /\ lpc = "delay"
    /\ clock >= listener_wake
    /\ lpc' = AfterBreak
    /\ op' = "asyncio.sleep"
    /\ args' = <<>>
    /\ ret' = None
    /\ UNCHANGED <<tpc, listener_wake, data_buffer, current_data, averaging_window,
                   update_interval, running, wake, clock, gatewayVars, polarVars>>

\* disconnect(): an open transport is closed
SerialAfterDisconnect == IF serial = "open" THEN "closed" ELSE serial

\* the finally clause of run(): self.running = False and disconnect()
run_finally ==
    /\ running
    /\ running' = FALSE
    /\ serial' = SerialAfterDisconnect
    /\ op' = "run"
    /\ args' = <<>>
    /\ ret' = None
    /\ UNCHANGED <<taskVars, data_buffer, current_data, averaging_window,
                   update_interval, wake, clock, sequence_counter, source_address,
                   wire, calls, polarVars>>

\* NMEA2000Gateway.connect()
Call_connect(outcome) ==
    /\ op' = "connect"
    /\ args' = <<outcome>>
    /\ ret' = Ok("bool", outcome = "connected")
    /\ serial' = SerialAfterConnect(outcome)
    /\ wire' = WireAfterConnect(outcome)
    /\ UNCHANGED <<sequence_counter, source_address, calls, monitorVars, polarVars>>

\* NMEA2000Gateway.disconnect()
Call_disconnect ==
    /\ op' = "disconnect"
    /\ args' = <<>>
    /\ ret' = None
    /\ serial' = SerialAfterDisconnect
    /\ UNCHANGED <<sequence_counter, source_address, wire, calls, monitorVars, polarVars>>

\* NMEA2000Gateway.send_engine_load(efficiency_percent)
Call_send_engine_load(efficiency_percent, accepted) ==
    LET sent == send_engine_load(efficiency_percent, 0, accepted)
    IN  /\ op' = "send_engine_load"
        /\ args' = <<efficiency_percent, accepted>>
        /\ ret' = sent.ret
        /\ wire' = wire \o sent.lines
        /\ sequence_counter' = IF sent.built THEN NextSequenceCounter ELSE sequence_counter
        /\ calls' = IF sent.built /\ calls < MaxCalls THEN calls + 1 ELSE calls
        /\ UNCHANGED <<source_address, serial, monitorVars, polarVars>>

-----------------------------------------------------------------------------
(* The state after construction. *)

\* NMEA2000Gateway.__init__
GatewayInit(sa) ==
    /\ source_address = sa
    /\ serial = "none"
    /\ sequence_counter = 0
    /\ wire = <<>>
    /\ calls = 0

\* SailingEfficiencyMonitor.__init__ (the clock is the environment's)
MonitorInit(window, interval) ==
    /\ averaging_window = window
    /\ update_interval = interval
    /\ running = FALSE
    /\ wake = Int2F(0)
    /\ tpc = "idle"
    /\ lpc = "idle"
    /\ listener_wake = 0
    /\ data_buffer = <<>>
    /\ current_data = SailingData(Int2F(0), Int2F(0), Int2F(0), 0)
    /\ clock = 0

\* BoatPerformance.__init__: the interpolator is built once
PolarInit(c) ==
    /\ interior = c
    /\ query = <<>>

\* no operation has run yet; a holds the arguments of the call to come, if drawn
CallInit(a) ==
    /\ op = "init"
    /\ args = a
    /\ ret = None

-----------------------------------------------------------------------------
(* Specification SpecEnc: one gateway, any sequence of                     *)
(* _build_fast_packet_frames calls.                                        *)

\* n bytes: base, base + step, base + 2 * step, ... modulo 256
Pattern(n, base, step) == [q \in 1..n |-> (base + step * (q - 1)) % 256]

EnginePayloads ==
    { _build_pgn_127489(Int2F(l), i).val : <<l, i>> \in {<<0, 0>>, <<87, 0>>, <<125, 3>>} }

Payloads ==
    EnginePayloads
    \cup { Pattern(26, 0, 1), Pattern(26, 250, 1), Pattern(26, 255, 0) }
    \cup { Pattern(n, 16, 3) : n \in {3, 6, 7, 20, 27} }

SrcAddrs == {0, 42, 252}

EncInputs == {PGN_ENGINE_DYNAMIC, 59904} \X Payloads \X {6}

InitEnc ==
    /\ \E sa \in SrcAddrs : GatewayInit(sa)
    /\ MonitorInit(Int2F(10), Int2F(1))
    /\ PolarInit(Int2F(0))
    /\ CallInit(<<>>)

NextEnc == \E in \in EncInputs : Call_build_fast_packet_frames(in[1], in[2], in[3])

SpecEnc == InitEnc /\ [][NextEnc]_vars

-----------------------------------------------------------------------------
(* Specification SpecSplit: _build_fast_packet_frames calls of one gateway  *)
(* over payloads of every length from 7 to MaxSplit bytes, and of the       *)
(* lengths around the last one whose frame numbers fit five bits (223) and  *)
(* the last one whose length fits a byte (255).                             *)

SplitLengths == (7..MaxSplit) \cup {222, 223, 224, 230, 255, 256}

SplitPayloads == { Pattern(n, 1, 1) : n \in SplitLengths }

InitSplit ==
    /\ GatewayInit(42)
    /\ MonitorInit(Int2F(10), Int2F(1))
    /\ PolarInit(Int2F(0))
    /\ CallInit(<<>>)

NextSplit ==
    \E data \in SplitPayloads : Call_build_fast_packet_frames(PGN_ENGINE_DYNAMIC, data, 6)

SpecSplit == InitSplit /\ [][NextSplit]_vars

-----------------------------------------------------------------------------
(* Specification SpecCanId: the first _build_fast_packet_frames call of a   *)
(* gateway, over parameter groups, priorities and source addresses.        *)

\* PDU1 (pf < 240) and PDU2 (pf >= 240) parameter groups on both data pages
Pgns ==
    {0, 1, 255, 256, 59904, 60928, 61183, 61184, 61250, 61439, 61440, 61441, 61695,
     65280, 65535, 65536, 65791, 126208, 126720, 126975, 126976, 126992, 127250,
     PGN_ENGINE_DYNAMIC, 129025, 130306, 130816, 131071}

Priorities == 0..7

CanIdSrcAddrs == {0, 1, 42, 127, 128, 251, 252}

InitCanId ==
    /\ \E sa \in CanIdSrcAddrs : GatewayInit(sa)
    /\ MonitorInit(Int2F(10), Int2F(1))
    /\ PolarInit(Int2F(0))
    /\ \E pgn \in Pgns, data \in {Pattern(26, 0, 1), Pattern(5, 9, 1)}, priority \in Priorities :
          CallInit(<<pgn, data, priority>>)

NextCanId ==
    /\ op = "init"
    /\ Call_build_fast_packet_frames(args[1], args[2], args[3])

SpecCanId == InitCanId /\ [][NextCanId]_vars

-----------------------------------------------------------------------------
(* Specification SpecPayload: _build_pgn_127489 applied to drawn arguments. *)

Loads ==
    { Int2F(l) : l \in {-5, 0, 1, 87, 124, 125, 126, 250, 300} }
    \cup { Rat(-1, 2), Rat(1, 2), Rat(9999, 100), Rat(249, 2), Rat(12499, 100), Rat(251, 2) }

Instances == 0..255

InitPayload ==
    /\ GatewayInit(42)
    /\ MonitorInit(Int2F(10), Int2F(1))
    /\ PolarInit(Int2F(0))
    /\ \E l \in Loads, i \in Instances : CallInit(<<l, i>>)

NextPayload == Call_build_pgn_127489

SpecPayload == InitPayload /\ [][NextPayload]_vars

-----------------------------------------------------------------------------
(* Specification SpecPolar: get_target_speed and calculate_efficiency       *)
(* applied to drawn arguments, for each value the interpolant may take.     *)

\* values of the interpolant off the vertices, in knots: on both sides of the
\* calm threshold 0.5 and at it
InteriorVals == { Int2F(0), Rat(1, 4), Rat(1, 2), Rat(51, 100), Rat(13, 2) }

TwsVals == { Int2F(0), Rat(7, 2), Int2F(4), Int2F(5), Int2F(12), Int2F(24), Rat(49, 2), NaN }

\* angles of one side, 0..180 degrees
SideAngles == { Int2F(0), Rat(1, 4), Int2F(45), Int2F(52), Int2F(90), Rat(359, 2), Int2F(180) }

TwaVals ==
    SideAngles
    \cup { FSub(Int2F(0), a) : a \in SideAngles }
    \cup { FSub(Int2F(360), a) : a \in SideAngles }
    \cup { Int2F(181), Int2F(-270), Int2F(400), Int2F(-400), NaN }

StwVals == { Int2F(-1), Int2F(0), Rat(1, 4), Int2F(3), Rat(34, 5), Int2F(9), NaN }

InitPolar ==
    /\ GatewayInit(42)
    /\ MonitorInit(Int2F(10), Int2F(1))
    /\ \E c \in InteriorVals : PolarInit(c)
    /\ \E tws \in TwsVals, twa \in TwaVals, stw \in StwVals : CallInit(<<tws, twa, stw>>)

NextPolar == Call_get_target_speed \/ Call_calculate_efficiency

SpecPolar == InitPolar /\ [][NextPolar]_vars

-----------------------------------------------------------------------------
(* Specification SpecTable: _build_model, and get_target_speed queried at   *)
(* each point of the model it builds.                                       *)

InitTable ==
    /\ GatewayInit(42)
    /\ MonitorInit(Int2F(10), Int2F(1))
    /\ \E c \in InteriorVals : PolarInit(c)
    /\ \E v \in 1..Len(_build_model) :
          CallInit(<<_build_model[v].tws, _build_model[v].twa>>)

NextTable == Call_get_target_speed \/ Call_build_model

SpecTable == InitTable /\ [][NextTable]_vars

-----------------------------------------------------------------------------
(* Specification SpecAgg: the sample buffer under deltas, snapshots and     *)
(* the passing of time.  Deltas arrive at most one per second of the clock. *)

\* the instruments' readings at second t: speed through water 2.5 or 5 m/s, true
\* wind angle pi/4, pi/2 or 3pi/4, true wind speed 5 or 10 m/s
Reading(t) ==
    Delta(<<<<PathValue("navigation.speedThroughWater", Rat(5 * (1 + (t % 2)), 2)),
              PathValue("environment.wind.angleTrueWater", Rat(1 + (t % 3), 4))>>,
            <<PathValue("environment.wind.speedTrue", Int2F(5 * (1 + ((t \div 2) % 2))))>>>>)

\* the delta that may arrive at second t: the readings, or a dict without 'updates'
AggDeltas(t) == { Reading(t), NoUpdates }

AggWindows == { Rat(5, 2), Int2F(5) }

InitAgg ==
    /\ GatewayInit(42)
    /\ \E w \in AggWindows : MonitorInit(w, Int2F(1))
    /\ PolarInit(Rat(13, 2))
    /\ CallInit(<<>>)

\* a delta arrives later than the sample stored last
Ingest ==
    /\ IF data_buffer = <<>> THEN TRUE
       ELSE data_buffer[Len(data_buffer)].timestamp < clock
    /\ \E data \in AggDeltas(clock) : Call_process_signalk_update(data)

NextAgg ==
    \/ Ingest
    \/ Call_calculate_averaged_efficiency
    \/ ClockTick(MaxTime)

SpecAgg == InitAgg /\ [][NextAgg]_vars

-----------------------------------------------------------------------------
(* Specification SpecTx: the running monitor.  run() connects the gateway;  *)
(* then deltas arrive, the transmitter ticks once per update_interval and   *)
(* time passes.                                                             *)

\* the number of frames serial.write accepts in one tick before it raises
WriteOutcomes == {2, 4}

InitTx ==
    /\ GatewayInit(42)
    /\ MonitorInit(Int2F(1), Int2F(1))
    /\ PolarInit(Rat(13, 2))
    /\ CallInit(<<>>)

NextTx ==
    \/ \E outcome \in ConnectOutcomes : run_connect(outcome)
    \/ running /\ Ingest
    \/ \E accepted \in WriteOutcomes : TransmitTick(accepted)
    \/ running /\ ClockTick(TxMaxTime)

SpecTx == InitTx /\ [][NextTx]_vars

-----------------------------------------------------------------------------
(* Specification SpecLoad: the running monitor, connected, fed with usable  *)
(* and unusable values, for each value the interpolant may take.            *)

\* deltas whose value is not a number (json.loads accepts NaN), and a negative
\* speed through water
NaNSpeed == Delta(<<<<PathValue("navigation.speedThroughWater", NaN)>>>>)
NaNWind  == Delta(<<<<PathValue("environment.wind.speedTrue", NaN)>>>>)
Astern   == Delta(<<<<PathValue("navigation.speedThroughWater", Int2F(-1))>>>>)

LoadDeltas(t) == { Reading(t), NaNSpeed, NaNWind, Astern }

InitLoad ==
    /\ GatewayInit(42)
    /\ MonitorInit(Int2F(1), Int2F(1))
    /\ \E c \in InteriorVals : PolarInit(c)
    /\ CallInit(<<>>)

LoadIngest ==
    /\ running
    /\ IF data_buffer = <<>> THEN TRUE
       ELSE data_buffer[Len(data_buffer)].timestamp < clock
    /\ \E data \in LoadDeltas(clock) : Call_process_signalk_update(data)

NextLoad ==
    \/ run_connect("connected")
    \/ LoadIngest
    \/ \E accepted \in WriteOutcomes : TransmitTick(accepted)
    \/ running /\ ClockTick(LoadMaxTime)

SpecLoad == InitLoad /\ [][NextLoad]_vars

-----------------------------------------------------------------------------
(* Specification SpecGate: one gateway that is connected when it is not     *)
(* open, disconnected when it is, and asked to send at any time, until      *)
(* MaxWire lines are on the transport.                                      *)

\* the frames serial.write accepts in one send before it raises: none or all
GateWrites == {0, 4}

\* efficiencies handed to send_engine_load; int(nan) raises before any frame is built
GateLoads == { Int2F(87), NaN }

GateConnects == {"open fails", "connected"}

InitGate ==
    /\ GatewayInit(42)
    /\ MonitorInit(Int2F(10), Int2F(1))
    /\ PolarInit(Int2F(0))
    /\ CallInit(<<>>)

NextGate ==
    /\ Len(wire) < MaxWire
    /\ \/ serial # "open" /\ \E outcome \in GateConnects : Call_connect(outcome)
       \/ serial = "open" /\ Call_disconnect
       \/ \E l \in GateLoads, accepted \in GateWrites : Call_send_engine_load(l, accepted)

SpecGate == InitGate /\ [][NextGate]_vars

-----------------------------------------------------------------------------
(* Specification SpecFeed: run() and the listener coroutine.  The feed      *)
(* connects or refuses, delivers deltas (at most one stored sample per      *)
(* second), falls silent or breaks; run() may reach its finally clause.     *)

\* a delta whose only value has a path the monitor does not know
UnknownPaths == Delta(<<<<PathValue("navigation.courseOverGroundTrue", Rat(1, 2))>>>>)

FeedDeltas(t) == { Reading(t), NoUpdates, UnknownPaths }

InitFeed ==
    /\ GatewayInit(42)
    /\ MonitorInit(Int2F(5), Int2F(1))
    /\ PolarInit(Rat(13, 2))
    /\ CallInit(<<>>)

\* a delta with updates arrives later than the sample stored last
FeedMessage ==
    \E data \in FeedDeltas(clock) :
        /\ IF "updates" \in DOMAIN data /\ data_buffer # <<>>
           THEN data_buffer[Len(data_buffer)].timestamp < clock
           ELSE TRUE
        /\ ListenerMessage(data)

NextFeed ==
    \/ \E outcome \in ConnectOutcomes : run_connect(outcome)
    \/ \E outcome \in ListenerConnectOutcomes : ListenerConnect(outcome)
    \/ \E outcome \in SubscribeOutcomes : ListenerSubscribe(outcome)
    \/ FeedMessage
    \/ ListenerTimeout
    \/ ListenerError
    \/ ListenerDelayOver
    \/ run_finally
    \/ ClockTick(RunMaxTime)

SpecFeed == InitFeed /\ [][NextFeed]_vars

-----------------------------------------------------------------------------
(* Specification SpecRun: run() with both coroutines, up to and after its   *)
(* finally clause.  The feed delivers deltas without updates only, so that  *)
(* the buffer stays empty and every tick reports a load of 0.  SpecRunFair  *)
(* adds what the event loop and the timers guarantee: an await that can     *)
(* resolve does, a coroutine that can run does, and time passes.  The      *)
(* transmitter ticks every 3 seconds.                                       *)

RunDeltas == { NoUpdates }

InitRun ==
    /\ GatewayInit(42)
    /\ MonitorInit(Int2F(5), Int2F(3))
    /\ PolarInit(Rat(13, 2))
    /\ CallInit(<<>>)

ListenerResolves ==
    \/ \E outcome \in ListenerConnectOutcomes : ListenerConnect(outcome)
    \/ \E outcome \in SubscribeOutcomes : ListenerSubscribe(outcome)
    \/ ListenerTimeout
    \/ ListenerDelayOver

TransmitterRuns ==
    \/ \E accepted \in WriteOutcomes : TransmitTick(accepted)
    \/ TransmitterExit

NextRun ==
    \/ \E outcome \in ConnectOutcomes : run_connect(outcome)
    \/ ListenerResolves
    \/ \E data \in RunDeltas : ListenerMessage(data)
    \/ ListenerError
    \/ TransmitterRuns
    \/ run_finally
    \/ ClockTick(RunMaxTime)

SpecRun == InitRun /\ [][NextRun]_vars

\* Weak fairness of TransmitterRuns is stated through its enabling condition:
\* TransmitterRuns is enabled exactly when TickDue holds and each of its steps
\* makes TickDue false, so WF_vars(TransmitterRuns) is []<>~TickDue.
SpecRunFair ==
    /\ SpecRun
    /\ WF_vars(ListenerResolves)
    /\ WF_vars(ClockTick(RunMaxTime))
    /\ []<>~TickDue

-----------------------------------------------------------------------------
(* Claims about the encoder. *)

IsBuildCall == op = "_build_fast_packet_frames"

\* bits 5-7 and bits 0-4 of a frame's first byte
SeqOf(frame)   == frame[2][1] \div 32
IndexOf(frame) == frame[2][1] % 32

\* C1, per call: a _build_fast_packet_frames step advances the sequence counter by
\* exactly one modulo 8, whatever the number of frames it returns, and every frame
\* it returns carries the counter's value from before the call in bits 5-7.
C1_StepAdvances ==
    IsBuildCall' =>
        /\ sequence_counter' = (sequence_counter + 1) % 8
        /\ ret'.kind = "ok"
        /\ \A i \in 1..Len(ret'.val) : SeqOf(ret'.val[i]) = sequence_counter

\* C1, from a fresh gateway: the n-th call carries (n - 1) mod 8, so nine
\* consecutive calls carry 0, 1, ..., 7 and then 0 again.
C1_FromFresh ==
    (IsBuildCall /\ calls < MaxCalls) =>
        /\ sequence_counter = calls % 8
        /\ \A i \in 1..Len(ret.val) : SeqOf(ret.val[i]) = (calls - 1) % 8

RECURSIVE StripHeaders(_, _)
StripHeaders(frames, k) ==
    IF k > Len(frames) THEN <<>>
    ELSE SubSeq(frames[k][2], IF k = 1 THEN 3 ELSE 2, Len(frames[k][2]))
         \o StripHeaders(frames, k + 1)

\* C2: for a 26-byte payload the frames' data bytes, concatenated in frame order
\* with the chunk headers stripped, are the payload followed only by the 0xFF
\* padding of the last frame.
C2_RoundTrip ==
    (IsBuildCall /\ Len(args[2]) = 26) =>
        /\ ret.kind = "ok"
        /\ LET cat == StripHeaders(ret.val, 1)
           IN  /\ Len(cat) >= 26
               /\ SubSeq(cat, 1, 26) = args[2]
               /\ Len(cat) - 26 < 7
               /\ \A i \in 27..Len(cat) : cat[i] = 255

\* a 26-byte payload whose bytes are all distinct went through the framing
C2_Witness ==
    /\ IsBuildCall
    /\ args[2] = Pattern(26, 250, 1)
    /\ Len(ret.val) = 4
    /\ ret.val[4][2][7] = 19 /\ ret.val[4][2][8] = 255

\* C3 as stated: PGN 127489, priority 6, source address 42 gives the identifier
\* (6<<26)|(1<<24)|(0xF2<<16)|(255<<8)|42, i.e. ps = 255.
C3_Original ==
    (IsBuildCall /\ args[1] = 127489 /\ args[3] = 6 /\ source_address = 42) =>
        \A i \in 1..Len(ret.val) :
            ret.val[i][1] = 6 * 2^26 + 1 * 2^24 + 242 * 2^16 + 255 * 2^8 + 42

\* C3 amended: PGN 127489, priority 6, source address 42 gives pf = 0xF2,
\* dataPage = 1 and ps = 0x01 (the PGN's low byte, since pf >= 240), i.e. the
\* identifier (6<<26)|(1<<24)|(0xF2<<16)|(1<<8)|42.
C3_CanIdEngineDynamic ==
    (IsBuildCall /\ args[1] = 127489 /\ args[3] = 6 /\ source_address = 42) =>
        /\ ret.kind = "ok"
        /\ \A i \in 1..Len(ret.val) :
              ret.val[i][1] = 6 * 2^26 + 1 * 2^24 + 242 * 2^16 + 1 * 2^8 + 42

\* the call of C3 has happened and returned its four frames
C3_Witness ==
    /\ IsBuildCall
    /\ args[1] = 127489 /\ args[3] = 6 /\ source_address = 42
    /\ Len(ret.val) = 4
    /\ ret.val[1][1] = 435290410

\* C4: for the PGNs, priorities 0..7 and source addresses 0..252 drawn, every
\* frame's identifier is priority<<26 | dataPage<<24 | pf<<16 | ps<<8 | source with
\* pf = (pgn>>8)&0xFF, dataPage = (pgn>>16)&1, ps = pgn&0xFF when pf >= 240 and 255
\* otherwise; it fits in 29 bits and is the same for all frames of the record.
C4_CanIdLayout ==
    IsBuildCall =>
        LET pgn == args[1]
            pf  == (pgn \div 256) % 256
            dp  == (pgn \div 65536) % 2
            ps  == IF pf >= 240 THEN pgn % 256 ELSE 255
            id  == (args[3] % 8) * 67108864 + dp * 16777216 + pf * 65536
                   + ps * 256 + source_address
        IN  /\ ret.kind = "ok"
            /\ \A i \in 1..Len(ret.val) : ret.val[i][1] = id
            /\ \A i \in 1..Len(ret.val) : ret.val[i][1] \in 0..(2^29 - 1)
            /\ \A i, j \in 1..Len(ret.val) : ret.val[i][1] = ret.val[j][1]

\* a PDU2 group at the boundary pf = 240 with a non-zero low byte, highest
\* priority and highest source address, over several frames
C4_Witness ==
    /\ IsBuildCall
    /\ args[1] = 61441 /\ args[3] = 7 /\ source_address = 252
    /\ Len(ret.val) = 4
    /\ ret.val[4][1] = 7 * 67108864 + 240 * 65536 + 1 * 256 + 252

\* C5: for every load (negative, in range, above 125, fractional) and every engine
\* instance in 0..255 the payload has 26 bytes: byte 0 the instance, byte 24 the
\* load clamped to 0..125 and truncated, byte 23 zero, byte 25 0x7F, bytes 9-10 the
\* little-endian 0x7FFF, every other byte 0xFF.
C5_PayloadLayout ==
    op = "_build_pgn_127489" =>
        LET load == args[1]
            want == IF load.n <= 0 THEN 0
                    ELSE IF load.n >= 125 * load.d THEN 125
                    ELSE load.n \div load.d
        IN  /\ ret.kind = "ok"
            /\ Len(ret.val) = 26
            /\ \A i \in 0..25 :
                  ret.val[i + 1] = CASE i = 0  -> args[2]
                                     [] i = 24 -> want
                                     [] i = 23 -> 0
                                     [] i = 25 -> 127
                                     [] i = 9  -> 255
                                     [] i = 10 -> 127
                                     [] OTHER  -> 255

\* a fractional load in range: 99.99 % for engine instance 200 gives load byte 99
C5_Witness ==
    /\ op = "_build_pgn_127489"
    /\ args = <<Rat(9999, 100), 200>>
    /\ ret.kind = "ok"
    /\ ret.val[1] = 200 /\ ret.val[25] = 99

-----------------------------------------------------------------------------
(* Claims about the polar model. *)

\* C6 as stated: for all (not-NaN) wind speed, wind angle and actual speed,
\* calculate_efficiency returns a pair (percent, target) with percent in [0, 125]:
\* the pair (0.0, target) when the target speed is <= 0.5, and
\* (clamp(actualSpeed / target * 100, 0, 125), target) otherwise.
C6_Original ==
    (op = "calculate_efficiency" /\ ~IsNaN(args[1]) /\ ~IsNaN(args[2]) /\ ~IsNaN(args[3])) =>
        LET target == get_target_speed(args[1], args[2])
            stw    == args[3]
        IN  /\ ret.kind = "ok"
            /\ ret.type = "tuple"
            /\ Len(ret.val) = 2
            /\ ret.val[2] = target
            /\ FLe(Int2F(0), ret.val[1]) /\ FLe(ret.val[1], Int2F(125))
            /\ IF 2 * target.n <= target.d THEN ret.val[1] = Int2F(0)
               ELSE IF stw.n <= 0 THEN ret.val[1] = Int2F(0)
               ELSE IF 100 * stw.n * target.d >= 125 * target.n * stw.d
                    THEN ret.val[1] = Int2F(125)
               ELSE ret.val[1].n * target.n * stw.d = 100 * stw.n * target.d * ret.val[1].d

\* C7: for every wind speed and every angle a in [0, 180], the calls with angle a,
\* -a and 360 - a all query the interpolation at the normalized angle a and return
\* the interpolant's value there.
C7_Symmetry ==
    (op = "get_target_speed" /\ ~IsNaN(args[1])) =>
        \A a \in SideAngles :
            args[2] \in { a, FSub(Int2F(0), a), FSub(Int2F(360), a) } =>
                /\ query = <<args[1], a>>
                /\ ret = Ok("float", interpolator(args[1], a))

\* the call with 360 - 45 = 315 degrees at 12 knots queried the point (12, 45) and
\* returned a non-zero speed
C7_Witness ==
    /\ op = "get_target_speed"
    /\ args[1] = Int2F(12) /\ args[2] = Int2F(315)
    /\ query = <<Int2F(12), Int2F(45)>>
    /\ ret.kind = "ok" /\ ret.type = "float"
    /\ ret.val = interior /\ FGt(interior, Int2F(0))

-----------------------------------------------------------------------------
(* Claims about the sample buffer, checked under SpecAgg. *)

IsSnapshot == op = "_calculate_averaged_efficiency"

IsIngest == op = "_process_signalk_update"

\* the positions of the buffered samples with timestamp >= clock - averaging_window
InWindow ==
    { s \in 1..Len(data_buffer) :
        data_buffer[s].timestamp * averaging_window.d
            >= clock * averaging_window.d - averaging_window.n }

RECURSIVE TotalOver(_, _)
TotalOver(S, field) ==
    IF S = {} THEN Int2F(0)
    ELSE LET s == CHOOSE x \in S : TRUE
         IN  FAdd(data_buffer[s][field], TotalOver(S \ {s}, field))

\* avg times the number of samples in S is their total
IsMeanOver(avg, S, field) == FMul(avg, Int2F(Cardinality(S))) = TotalOver(S, field)

\* samples were ingested at t = 0, 1, ..., 9 and the clock reads 10
TenSamples ==
    /\ clock = 10
    /\ averaging_window = Int2F(5)
    /\ Len(data_buffer) = 10
    /\ \A s \in 1..10 : data_buffer[s].timestamp = s - 1

\* C8: a snapshot taken at time clock with window averaging_window returns, for
\* stw, twa and tws, the unweighted arithmetic mean over exactly the buffered
\* samples whose timestamp is >= clock - averaging_window; after samples at
\* t = 0..9, a snapshot at t = 10 with a 5-second window is the mean of the five
\* samples with timestamps 5..9.
C8_WindowedMean ==
    (IsSnapshot /\ InWindow # {}) =>
        /\ IsMeanOver(ret.val[3], InWindow, "stw")
        /\ IsMeanOver(ret.val[4], InWindow, "twa")
        /\ IsMeanOver(ret.val[5], InWindow, "tws")
        /\ TenSamples =>
             /\ InWindow = 6..10
             /\ FMul(ret.val[3], Int2F(5)) =
                  FAdd(data_buffer[6].stw, FAdd(data_buffer[7].stw,
                  FAdd(data_buffer[8].stw, FAdd(data_buffer[9].stw,
                       data_buffer[10].stw))))

\* the snapshot of the ten-sample scenario: 4 m/s, the mean of 5, 2.5, 5, 2.5, 5;
\* the mean of all ten samples differs
C8_Witness ==
    /\ IsSnapshot
    /\ TenSamples
    /\ ~IsMeanOver(ret.val[3], 1..10, "stw")
    /\ ret.val[3] = _ms_to_knots(Int2F(4))

\* a full buffer, then a delta with updates
FullBefore == Len(data_buffer) = MaxLen

C10_Step ==
    IF IsIngest' /\ "updates" \in DOMAIN args'[1]
    THEN LET shift == IF FullBefore THEN 1 ELSE 0
         IN  /\ Len(data_buffer') = Len(data_buffer) + 1 - shift
             /\ data_buffer'[Len(data_buffer')] = current_data'
             /\ \A s \in 1..(Len(data_buffer') - 1) :
                    data_buffer'[s] = data_buffer[s + shift]
    ELSE data_buffer' = data_buffer

C10_Bound ==
    /\ Len(data_buffer) <= MaxLen
    /\ \A s \in 1..(Len(data_buffer) - 1) :
           data_buffer[s].timestamp <= data_buffer[s + 1].timestamp

\* C10: the buffer never holds more than its capacity and holds its samples in
\* arrival order; a delta ingested into a full buffer removes exactly the oldest
\* sample and appends the new one, a delta ingested into a buffer that is not full
\* only appends, and no other step (a snapshot, the passing of time, a delta
\* without updates) changes the buffer, however old its samples are.
C10_RingBuffer == [][C10_Step]_vars /\ []C10_Bound

\* a snapshot of a full buffer that has lost its oldest sample to a later delta
\* and still holds samples older than the window
C10_Witness ==
    /\ IsSnapshot
    /\ Len(data_buffer) = MaxLen
    /\ data_buffer[1].timestamp > 0
    /\ 1 \notin InWindow
    /\ InWindow # {}

-----------------------------------------------------------------------------
(* Claims about the transmit tick, checked under SpecTx. *)

IsTransmitTick == op = "_n2k_transmitter"

\* C9 as stated: a transmit tick at which no buffered sample falls inside the
\* averaging window (empty buffer, or every sample older than the window) writes
\* no telemetry record to the transport.
C9_Original == [][(IsTransmitTick' /\ InWindow' = {}) => wire' = wire]_vars

-----------------------------------------------------------------------------
(* Claims about the polar table, checked under SpecTable and SpecPolar. *)

IsTargetCall == op = "get_target_speed"

IsBuildModel == op = "_build_model"

\* the points of column c as the table lists them: the 0 boundary, the beat
\* angle, the fixed angles, the gybe angle, the 180 boundary
TableOrder(points, c) ==
    LET col == SubSeq(points, 12 * (c - 1) + 1, 12 * c)
    IN  <<col[2], col[1]>> \o SubSeq(col, 3, 12)

\* the sign of cos(radians(angle)) for 0 <= angle <= 180
CosSign(angle) ==
    IF FLt(angle, Int2F(90)) THEN 1 ELSE IF angle = Int2F(90) THEN 0 ELSE -1

NonNegative(value) ==
    IF value.kind = "speed" THEN FGe(value.val, Int2F(0))
    ELSE /\ FGe(value.vmg, Int2F(0))
         /\ FGe(value.factor, Int2F(0))
         /\ IF value.absolute THEN CosSign(value.of) # 0 ELSE CosSign(value.of) = 1

AllNonNegative(points) == \A v \in 1..Len(points) : NonNegative(points[v].value)

\* C18 as stated: in each wind-speed column the angles of the derived points, in
\* table order, strictly increase from 0 to at most 180, and every speed is
\* non-negative.
C18_Original ==
    IsBuildModel =>
        /\ \A c \in 1..Len(tws_cols) :
              LET col == TableOrder(ret.val, c)
              IN  /\ col[1].twa = Int2F(0)
                  /\ FLe(col[12].twa, Int2F(180))
                  /\ \A v \in 1..11 : FLt(col[v].twa, col[v + 1].twa)
        /\ AllNonNegative(ret.val)

\* C18: in each wind-speed column the angles of the derived points, in table
\* order, start at 0, end at 180 and strictly increase, except that the gybe angle
\* is listed after the 150 row while it lies between 135 and 150 in the columns
\* of 4, 6, 8 and 10 knots (144.2, 144.2, 148.0, 149.3); it is above 150 from 12
\* knots on.  The twelve angles of a column are distinct, and every speed is
\* non-negative.
C18_Amended ==
    IsBuildModel =>
        /\ \A c \in 1..Len(tws_cols) :
              LET col == TableOrder(ret.val, c)
              IN  /\ col[1].twa = Int2F(0)
                  /\ col[12].twa = Int2F(180)
                  /\ \A v \in 1..9 : FLt(col[v].twa, col[v + 1].twa)
                  /\ FLt(col[11].twa, col[12].twa)
                  /\ IF tws_cols[c] <= 10
                     THEN FLt(col[9].twa, col[11].twa) /\ FLt(col[11].twa, col[10].twa)
                     ELSE FLt(col[10].twa, col[11].twa)
                  /\ \A v, w \in 1..12 : v # w => col[v].twa # col[w].twa
        /\ AllNonNegative(ret.val)

\* the model is built: 108 points, the gybe point of the 4-knot column at 144.2
C18_Witness ==
    /\ IsBuildModel
    /\ Len(ret.val) = 108
    /\ ret.val[11].twa = Rat(1442, 10)
    /\ ret.val[10].twa = Int2F(150)

IsEfficiencyCall == op = "calculate_efficiency"

\* C19 as stated: with a not-a-number wind speed or wind angle, get_target_speed
\* returns None without querying the interpolator, and calculate_efficiency
\* completes without raising.
C19_Original ==
    (IsNaN(args[1]) \/ IsNaN(args[2])) =>
        /\ IsTargetCall => (ret = None /\ query = <<>>)
        /\ IsEfficiencyCall => ret.kind # "raise"

-----------------------------------------------------------------------------
(* Claims about the frames of short and long payloads, checked under SpecEnc. *)

\* the payload bytes carried by frame f (counted from 1) of a payload of n bytes
Carried(n, f) == IF f = 1 THEN Min(n, 6) ELSE Min(n - 6 - 7 * (f - 2), 7)

\* C20 as stated: for a payload of 1 to 223 bytes every frame returned by
\* _build_fast_packet_frames is exactly 8 bytes long, and every byte of the last
\* frame after the payload data is 0xFF, a single frame of a payload shorter than
\* 6 bytes included.
C20_Original ==
    (op = "_build_fast_packet_frames" /\ Len(args[2]) \in 1..223) =>
        /\ ret.kind = "ok"
        /\ \A f \in 1..Len(ret.val) : Len(ret.val[f][2]) = 8
        /\ LET last == ret.val[Len(ret.val)][2]
               used == (IF Len(ret.val) = 1 THEN 2 ELSE 1) + Carried(Len(args[2]), Len(ret.val))
           IN  \A b \in (used + 1)..8 : b <= Len(last) /\ last[b] = 255

-----------------------------------------------------------------------------
(* Claims about the split of a payload into frames, checked under SpecSplit. *)

\* ceil(a / b) for a >= 0, b > 0
CeilDiv(a, b) == (a + b - 1) \div b

\* the frames returned are the split of the n-byte payload: 1 + ceil((n-6)/7)
\* frames; the first with frame index 0, n in its second byte and payload bytes
\* 1..6; the k-th following one with frame index k in the low 5 bits of its first
\* byte and the next (up to) 7 payload bytes
IsSplitOf(frames, data) ==
    LET n == Len(data)
    IN  /\ Len(frames) = 1 + CeilDiv(n - 6, 7)
        /\ IndexOf(frames[1]) = 0
        /\ frames[1][2][2] = n
        /\ SubSeq(frames[1][2], 3, 8) = SubSeq(data, 1, 6)
        /\ \A k \in 1..(Len(frames) - 1) :
              /\ IndexOf(frames[k + 1]) = k
              /\ SubSeq(frames[k + 1][2], 2, 1 + Carried(n, k + 1))
                   = SubSeq(data, 7 * k, Min(n, 7 * k + 6))
        /\ n = 26 => [f \in 1..Len(frames) |-> IndexOf(frames[f])] = <<0, 1, 2, 3>>

\* C21 as stated: every payload of length n > 6 is split so, the frame indices
\* increasing by exactly 1 with no gaps.
C21_Original ==
    (IsBuildCall /\ Len(args[2]) > 6) => (ret.kind = "ok" /\ IsSplitOf(ret.val, args[2]))

\* C21: every payload of length 6 < n <= 223 is split into 1 + ceil((n-6)/7)
\* frames, the first with frame index 0, the length and 6 payload bytes, the k-th
\* following one with frame index k in the low 5 bits and the next (up to) 7
\* payload bytes, so that 26 bytes give 4 frames with indices 0, 1, 2, 3.  From
\* 224 bytes on there are more than 32 frames and the frame number no longer
\* fits the 5 bits.
C21_Amended ==
    /\ (IsBuildCall /\ Len(args[2]) > 6 /\ Len(args[2]) <= 223) =>
          (ret.kind = "ok" /\ IsSplitOf(ret.val, args[2]))
    /\ (IsBuildCall /\ Len(args[2]) \in 224..255) =>
          /\ ret.kind = "ok"
          /\ Len(ret.val) = 1 + CeilDiv(Len(args[2]) - 6, 7)
          /\ IndexOf(ret.val[33]) = 0

\* the longest payload whose frame numbers fit: 223 bytes, 32 frames, the last
\* one with index 31 and seven payload bytes
C21_Witness ==
    /\ IsBuildCall
    /\ Len(args[2]) = 223
    /\ Len(ret.val) = 32
    /\ IndexOf(ret.val[32]) = 31
    /\ ret.val[32][2][8] = args[2][223]

-----------------------------------------------------------------------------
(* Claims about the handshake and the window, checked under SpecTx. *)

IsTelemetry(line) == "pgn" \in DOMAIN line

TelemetryWritten == \E w \in 1..Len(wire) : IsTelemetry(wire[w])

HandshakesBefore(w) == { v \in 1..(w - 1) : wire[v] = Handshake }

\* run() has called connect() and it returned False
ConnectFailed == op = "run" /\ args # <<>> /\ args[1] # "connected"

\* C14 as stated: every telemetry line on the transport has the raw-mode
\* handshake command written before it, exactly once; and once connect() has
\* failed, at whichever step, no telemetry line is ever written.
C14_Original ==
    /\ [](\A w \in 1..Len(wire) :
             IsTelemetry(wire[w]) => Cardinality(HandshakesBefore(w)) = 1)
    /\ [](ConnectFailed => [](~TelemetryWritten))

\* the sample _process_signalk_update stores for the readings of second t
WholeSample(t) ==
    LET cd == ApplyUpdates(SailingData(Int2F(0), Int2F(0), Int2F(0), Int2F(0)),
                           Reading(t).updates, 1)
    IN  SailingData(cd.stw, cd.twa, cd.tws, t)

\* C16: in every interleaving of deltas, transmit ticks and the passing of time,
\* no step is both an append and a snapshot; every sample in the window has its
\* four fields from one and the same delta; the newest sample is the state the
\* listener holds; and the snapshot of a tick is the mean over exactly the whole
\* samples of the window at that moment.
C16_NoTornSample ==
    /\ [][~(data_buffer' # data_buffer /\ IsTransmitTick')]_vars
    /\ [](\A s \in 1..Len(data_buffer) :
             data_buffer[s] = WholeSample(data_buffer[s].timestamp))
    /\ [](data_buffer # <<>> => data_buffer[Len(data_buffer)] = SampleOf(current_data))
    /\ []((IsTransmitTick /\ InWindow # {}) =>
             /\ IsMeanOver(ret.val.snapshot[3], InWindow, "stw")
             /\ IsMeanOver(ret.val.snapshot[4], InWindow, "twa")
             /\ IsMeanOver(ret.val.snapshot[5], InWindow, "tws"))

\* a tick that follows two deltas and averages both
C16_Witness ==
    /\ IsTransmitTick
    /\ Len(data_buffer) = 2
    /\ Cardinality(InWindow) = 2
    /\ data_buffer[1].stw # data_buffer[2].stw

-----------------------------------------------------------------------------
(* Claims about stored samples, checked under SpecAgg. *)

\* the stored samples that an append keeps: all of them, or all but the oldest
\* when the deque is full
KeptByAppend == IF Len(data_buffer) >= MaxLen THEN Tail(data_buffer) ELSE data_buffer

\* C22: the window changes only in a step of the ingestion path, which appends
\* one sample and leaves every sample it keeps as it was at insertion, also when
\* the update overwrites the monitor's current values; a snapshot and the passing
\* of time leave the window unchanged.
C22_SamplesImmutable ==
    /\ [][data_buffer' # data_buffer =>
            /\ IsIngest'
            /\ data_buffer' # <<>>
            /\ SubSeq(data_buffer', 1, Len(data_buffer') - 1) = KeptByAppend]_vars
    /\ [][current_data' # current_data =>
            \A s \in 1..Len(KeptByAppend) : data_buffer'[s] = KeptByAppend[s]]_vars
    /\ [][(IsSnapshot' \/ clock' # clock) => data_buffer' = data_buffer]_vars

\* the deque is full and has dropped the sample of second 0: the oldest sample
\* is the one of second 1, unlike the current values
C22_Witness ==
    /\ IsIngest
    /\ Len(data_buffer) = MaxLen
    /\ data_buffer[1] = WholeSample(1)
    /\ data_buffer[MaxLen - 1] = WholeSample(MaxLen - 1)
    /\ data_buffer[1].stw # current_data.stw
    /\ current_data.timestamp = MaxLen

-----------------------------------------------------------------------------
(* Claims about the load byte on the transport, checked under SpecLoad. *)

\* the byte a pair of hexadecimal digits stands for
DigitValue(c) == (CHOOSE h \in 1..16 : HexDigits[h] = c) - 1

ByteOfHex(pair) == 16 * DigitValue(pair[1]) + DigitValue(pair[2])

\* the lines that carry payload byte 24: frame number 3 holds payload bytes
\* 20..25 in its bytes 1..6, so the load is its byte 5
LoadLines ==
    { w \in 1..Len(wire) :
        IsTelemetry(wire[w]) /\ ByteOfHex(wire[w].hex_data[1]) % 32 = 3 }

LoadByte(w) == ByteOfHex(wire[w].hex_data[6])

\* the newest line on the transport
LastLoad == LoadByte(Len(wire))

\* C23: every telemetry record on the transport carries a load byte in 0..125,
\* whatever the window holds and however the efficiency computation ends; the
\* record of a tick whose computation failed or whose window was empty carries 0,
\* the one of a computed efficiency carries it truncated.
C23_LoadInRange ==
    /\ \A w \in LoadLines : LoadByte(w) \in 0..125
    /\ (IsTransmitTick /\ ret.val.sent) =>
          /\ Len(wire) \in LoadLines
          /\ ~IsNaN(ret.val.snapshot[1])
          /\ LastLoad = PyInt(ret.val.snapshot[1])
          /\ (InWindow = {} \/ FLe(ret.val.snapshot[2], Rat(1, 2))) => LastLoad = 0

\* a tick with samples in the window and a target of 0.25 knots, below the calm
\* threshold: the fall-back efficiency 0 was written
C23_Witness ==
    /\ IsTransmitTick
    /\ ret.val.sent
    /\ InWindow # {}
    /\ interior = Rat(1, 4)
    /\ ~IsNaN(ret.val.snapshot[3])
    /\ LastLoad = 0

-----------------------------------------------------------------------------
(* Claims about the sequence values on the transport, checked under SpecGate. *)

IsSend == op = "send_engine_load"

TelemetryLines == { w \in 1..Len(wire) : IsTelemetry(wire[w]) }

\* the sequence value in bits 5-7 of the first byte of a line, and of line w
SeqOfLine(line) == ByteOfHex(line.hex_data[1]) \div 32

LineSeq(w) == SeqOfLine(wire[w])

LastSeq == LineSeq(CHOOSE w \in TelemetryLines : \A v \in TelemetryLines : v <= w)

\* the counter is the successor of the sequence value written last
Synced == TelemetryLines = {} \/ sequence_counter = (LastSeq + 1) % 8

\* C24: send_engine_load called with the transport absent or closed returns False,
\* writes nothing and leaves the sequence counter as it is; a send that writes
\* gives all its lines the counter's value, which follows the value of the record
\* written before by one modulo 8 however many sends happened in between while
\* the transport was closed.  The counter leaves the successor of the last
\* written value only in a send on an open transport whose first write raises.
C24_NoSkipWhileClosed ==
    /\ [][(IsSend' /\ serial # "open") =>
            /\ ret' = Ok("bool", FALSE)
            /\ wire' = wire
            /\ sequence_counter' = sequence_counter]_vars
    /\ [][(IsSend' /\ wire' # wire) =>
            /\ \A w \in (Len(wire) + 1)..Len(wire') : SeqOfLine(wire'[w]) = sequence_counter
            /\ (TelemetryLines # {} /\ Synced) =>
                  SeqOfLine(wire'[Len(wire) + 1]) = (LastSeq + 1) % 8
            /\ Synced']_vars
    /\ [][(Synced /\ ~Synced') => (IsSend' /\ serial = "open" /\ wire' = wire)]_vars

\* two records with sequence values 0 and 1, the transport closed and connected
\* again in between
C24_Witness ==
    /\ IsSend
    /\ ret = Ok("bool", TRUE)
    /\ Len(wire) = 10
    /\ wire[1] = Handshake /\ wire[6] = Handshake
    /\ LineSeq(2) = 0 /\ LineSeq(5) = 0
    /\ LineSeq(7) = 1 /\ LineSeq(10) = 1
    /\ sequence_counter = 2

-----------------------------------------------------------------------------
(* Claims about the angle of the query, checked under SpecPolar. *)

\* C25: for a wind angle in [-360, 360] (and a wind speed that is a number) the
\* angle at which get_target_speed queries the interpolator lies in [0, 180]; for
\* an angle of magnitude above 360 the angle of the query is negative.
C25_AngleRange ==
    (IsTargetCall /\ ~IsNaN(args[1]) /\ ~IsNaN(args[2])) =>
        /\ query # <<>>
        /\ query[1] = args[1]
        /\ FLe(FAbs(args[2]), Int2F(360)) =>
              (FGe(query[2], Int2F(0)) /\ FLe(query[2], Int2F(180)))
        /\ FGt(FAbs(args[2]), Int2F(360)) => FLt(query[2], Int2F(0))

\* -270 degrees is queried at 90
C25_Witness ==
    /\ IsTargetCall
    /\ args[1] = Int2F(12)
    /\ args[2] = Int2F(-270)
    /\ query = <<Int2F(12), Int2F(90)>>
    /\ ret = Ok("float", Rat(704, 100))

-----------------------------------------------------------------------------
(* Claims about the listener, checked under SpecFeed. *)

KnownPaths ==
    {"navigation.speedThroughWater", "environment.wind.angleTrueWater",
     "environment.wind.speedTrue"}

\* no 'updates' key, or updates none of whose values has a known path
IsMalformed(data) ==
    \/ "updates" \notin DOMAIN data
    \/ \A u \in 1..Len(data.updates) : \A v \in 1..Len(data.updates[u]) :
           data.updates[u][v].path \notin KnownPaths

\* the step is the listener handling the message in args'[1]
IsListenerMessage == lpc = "receiving" /\ op' = "_process_signalk_update"

\* C11 as stated: a message without 'updates' or with unknown paths only leaves
\* the buffer and the current sensor values unchanged, and the listener keeps
\* receiving on the same connection (while self.running is set).
C11_Original ==
    [][(IsListenerMessage /\ IsMalformed(args'[1])) =>
          /\ data_buffer' = data_buffer
          /\ current_data' = current_data
          /\ running => lpc' = "receiving"]_vars

-----------------------------------------------------------------------------
(* Claims about the two coroutines, checked under SpecRunFair. *)

\* the listener starts a new connection attempt, having made one before
Reconnects == lpc' = "connecting" /\ lpc \notin {"idle", "connecting"}

\* the listener has lost its connection or failed to establish it
ConnectionFailed ==
    \/ op = "websockets.connect" /\ args[1] = "refused"
    \/ op = "_subscribe_signalk" /\ args[1] = "send fails"
    \/ op = "Signal K receive error"

\* C12 as stated: while self.running is set, a lost or failed connection is
\* followed by the 5-second delay and only then by a new connection attempt; a
\* failure is always eventually followed by a new attempt (if the delay ends
\* within the modelled time), and the listener does not end while the flag is set.
C12_Original ==
    /\ [][Reconnects => (lpc = "delay" /\ clock >= listener_wake)]_vars
    /\ [][(lpc' = "delay" /\ lpc # "delay") =>
             listener_wake' = clock + RECONNECT_DELAY]_vars
    /\ (ConnectionFailed /\ running /\ clock + RECONNECT_DELAY <= RunMaxTime)
           ~> (lpc = "connecting" \/ ~running)
    /\ [](lpc = "done" => ~running)

\* the last step was a tick whose send_engine_load met a failing serial.write
SendFailed ==
    /\ IsTransmitTick
    /\ serial = "open"
    /\ ~ret.val.sent

\* the last step was a tick
JustTicked == IsTransmitTick /\ FGt(wake, Int2F(clock))

\* C13: a tick whose send fails leaves the transmitter asleep until clock +
\* update_interval like any other tick; and while self.running is set, whatever
\* the listener does, the transmitter's sleep ends (if it ends within the
\* modelled time) and a due tick is performed.
C13_KeepsTicking ==
    /\ [](SendFailed =>
            tpc = "sleeping" /\ wake = FAdd(Int2F(clock), update_interval))
    /\ (running /\ tpc = "sleeping" /\ FLe(wake, Int2F(RunMaxTime)))
           ~> (~running \/ TickDue)
    /\ (running /\ TickDue) ~> (~running \/ JustTicked)

\* the second tick is performed after the first one's send failed, and its send
\* fails too, while the listener is in its reconnect delay
C13_Witness ==
    /\ JustTicked
    /\ running
    /\ lpc = "delay"
    /\ clock >= 4
    /\ Len(wire) = 5
    /\ ~ret.val.sent

\* the listener runs: an await of its ends
ListenerStep ==
    op' \in {"websockets.connect", "_subscribe_signalk", "_process_signalk_update",
             "asyncio.TimeoutError", "Signal K receive error", "asyncio.sleep"}

\* every timer that is running ends within the modelled time
TimersEnd ==
    /\ FLe(wake, Int2F(RunMaxTime))
    /\ lpc \in {"receiving", "delay"} => listener_wake <= RunMaxTime

=============================================================================
